---- MODULE Spec2Model ----
(***************************************************************************)
(* Model of the rpcX SDK parser registry (sdk/src/parser.rs): the          *)
(* ParserBuilder that accumulates account and instruction parsers, and the *)
(* Parser that dispatches a byte buffer to them in registration order.     *)
(*                                                                         *)
(* Conventions.  Option<X> is a sequence of length 0 (None) or 1 (Some).   *)
(* A Rust String is a sequence of string fragments, so that format! and    *)
(* to_string are concatenations.  A Result is a record with field ok.      *)
(* A boxed parser closure is a record naming the function it calls and the *)
(* values it captured.  Every parser run also reports, in field body, the  *)
(* byte slices its decode logic ran on: the slice handed to the            *)
(* deserializer of T, or the buffer a custom closure was called with.      *)
(***************************************************************************)
EXTENDS Integers, Sequences, FiniteSets, TLC

(***************************************************************************)
(* Record fields.  The model checker orders the fields of a record by the  *)
(* first occurrence of their names in the module; every record in this     *)
(* module is written in the order fixed here, the order of the struct      *)
(* declarations of the source.                                             *)
(***************************************************************************)
FieldOrder ==
  [fn |-> 1, F |-> 2, T |-> 3, ok |-> 4, kind |-> 5, msg |-> 6, value |-> 7,
   account_type |-> 8, instruction_name |-> 9, owner |-> 10, type_name |-> 11,
   name |-> 12, data |-> 13, discriminator |-> 14, disc_size |-> 15,
   parser |-> 16, program_id |-> 17, account_parsers |-> 18,
   instruction_parsers |-> 19, metadata |-> 20, project_url |-> 21,
   version |-> 22, last_error |-> 23, ret |-> 24, invoked |-> 25,
   decoded |-> 26, body |-> 27, index |-> 28, bytes |-> 29, pc |-> 30,
   call |-> 31, input |-> 32]

VARIABLES stage, program_id, account_parsers, instruction_parsers, metadata,
          op, arg, ret, invoked, decoded, threads

vars == <<stage, program_id, account_parsers, instruction_parsers, metadata,
          op, arg, ret, invoked, decoded, threads>>

(***************************************************************************)
(* Bounds                                                                  *)
(***************************************************************************)
MaxParsers == 2

(***************************************************************************)
(* Option, Result, strings                                                 *)
(***************************************************************************)
None == <<>>

Some(x) == <<x>>

Ok(v) == [ok |-> TRUE, value |-> v]

Err(kind, msg) == [ok |-> FALSE, kind |-> kind, msg |-> msg]

ByteStr(b) ==
  CASE b = 0 -> "0" [] b = 1 -> "1" [] b = 2 -> "2" [] b = 3 -> "3"
    [] b = 4 -> "4" [] b = 5 -> "5" [] b = 6 -> "6" [] b = 7 -> "7"
    [] b = 8 -> "8" [] b = 9 -> "9"

Skip(data, n) == SubSeq(data, n + 1, Len(data))

Take(data, n) == SubSeq(data, 1, n)

(***************************************************************************)
(* Inputs of the model                                                     *)
(***************************************************************************)
Ids == {"ProgramX", "ProgramY"}

Types == {"Widget", "Opaque"}

TypePath(T) == <<"tentacles", "state", T>>

compute_anchor_discriminator(namespace, name) ==
  CASE namespace = "account" /\ name = "Widget"   -> <<1, 2, 3, 4, 5, 6, 7, 8>>
    [] namespace = "account" /\ name = "Opaque"   -> <<1, 2, 3, 4, 5, 6, 7, 9>>
    [] namespace = "global"  /\ name = "deposit"  -> <<2, 2, 3, 4, 5, 6, 7, 8>>
    [] namespace = "global"  /\ name = "withdraw" -> <<2, 2, 3, 4, 5, 6, 7, 9>>
    [] OTHER                                      -> <<9, 9, 9, 9, 9, 9, 9, 9>>

WidgetDisc == compute_anchor_discriminator("account", "Widget")

OpaqueDisc == compute_anchor_discriminator("account", "Opaque")

DepositDisc == compute_anchor_discriminator("global", "deposit")

WithdrawDisc == compute_anchor_discriminator("global", "withdraw")

Datas ==
  { <<>>, <<5>>, <<7, 7>>, <<7, 7, 5>>, <<7, 8, 5>>,
    Take(WidgetDisc, 7), WidgetDisc, WidgetDisc \o <<5>>, OpaqueDisc \o <<5>>,
    DepositDisc \o <<5>>, WithdrawDisc \o <<5>> }

Previews == { <<>>, <<7, 7, 5>> }

Batches ==
  LET short == [owner |-> "ProgramX", data |-> <<>>]
      widget == [owner |-> "ProgramX", data |-> WidgetDisc \o <<5>>]
      gadget == [owner |-> "ProgramX", data |-> <<7, 7, 5>>]
      other == [owner |-> "ProgramY", data |-> <<7, 7, 5>>]
  IN { <<>>, <<short, widget>>, <<widget, other, gadget>>,
       <<gadget, gadget>> }

Metadatas ==
  { [name |-> Some("Demo"), program_id |-> None, project_url |-> None,
     version |-> None],
    [name |-> None, program_id |-> Some("ProgramY"), project_url |-> None,
     version |-> Some("1.0.0")] }

(***************************************************************************)
(* The pluggable type T: borsh::BorshDeserialize::try_from_slice,          *)
(* anchor_lang::AccountDeserialize::try_deserialize and the rendering of   *)
(* the value (serde_json::to_string, or the to_json closure).  Widget is   *)
(* struct { value: u8 }; Opaque is a one-byte value whose rendering fails. *)
(***************************************************************************)
try_from_slice(T, v) ==
  IF Len(v) < 1 THEN Err("io", <<"Unexpected length of input">>)
  ELSE IF Len(v) > 1 THEN Err("io", <<"Not all bytes read">>)
  ELSE Ok([T |-> T, value |-> v[1]])

try_deserialize(T, v) ==
  IF Len(v) < 1 THEN Err("io", <<"Unexpected length of input">>)
  ELSE Ok([T |-> T, value |-> v[1]])

to_string(x) ==
  IF x.T = "Opaque" THEN Err("json", <<"key must be a string">>)
  ELSE Ok(<<"{\"value\":", ByteStr(x.value), "}">>)

extract_type_name(T) == TypePath(T)[Len(TypePath(T))]

(***************************************************************************)
(* Caller supplied closures of register_custom_account and                 *)
(* register_custom_instruction.                                            *)
(***************************************************************************)
CustomFns == {"AlwaysOk", "AlwaysFail"}

CustomAccountFn(F, data) ==
  IF F = "AlwaysOk"
  THEN Ok([account_type |-> "Custom", data |-> <<"{}">>,
           discriminator |-> None])
  ELSE Err("DeserializationFailed", <<"custom rejected">>)

CustomInstructionFn(F, data) ==
  IF F = "AlwaysOk"
  THEN Ok([instruction_name |-> "custom", data |-> <<"{}">>])
  ELSE Err("DeserializationFailed", <<"custom rejected">>)

(***************************************************************************)
(* Parser functions.  Each yields [ret, body]: the Result and the slices   *)
(* passed to the deserializer of T.                                        *)
(***************************************************************************)
AnchorAccountClosure_NoCompare(data, T, type_name, discriminator) ==
  IF Len(data) < 8
  THEN [ret |-> Err("InsufficientData", <<"Account data too short">>),
        body |-> <<>>]
  ELSE LET data_slice == Skip(data, 8)
           account == try_deserialize(T, data_slice)
           json == to_string(account.value)
       IN [ret |-> IF ~account.ok
                   THEN Err("DeserializationFailed", account.msg)
                   ELSE IF ~json.ok THEN Err("InvalidData", json.msg)
                   ELSE Ok([account_type |-> type_name, data |-> json.value,
                            discriminator |-> Some(discriminator)]),
           body |-> <<data_slice>>]

AnchorAccountClosure_OneErrorKind(data, T, type_name, discriminator) ==
  IF Len(data) < 8
  THEN [ret |-> Err("InsufficientData", <<"Account data too short">>),
        body |-> <<>>]
  ELSE IF Take(data, 8) # discriminator
  THEN [ret |-> Err("UnknownAccountType", <<"Wrong discriminator">>),
        body |-> <<>>]
  ELSE LET data_slice == Skip(data, 8)
           account == try_deserialize(T, data_slice)
           json == to_string(account.value)
       IN [ret |-> IF ~account.ok
                   THEN Err("DeserializationFailed", account.msg)
                   ELSE IF ~json.ok
                   THEN Err("DeserializationFailed", json.msg)
                   ELSE Ok([account_type |-> type_name, data |-> json.value,
                            discriminator |-> Some(discriminator)]),
           body |-> <<data_slice>>]

AnchorAccountClosure(data, T, type_name, discriminator) ==
  IF Len(data) < 8
  THEN [ret |-> Err("InsufficientData", <<"Account data too short">>),
        body |-> <<>>]
  ELSE IF Take(data, 8) # discriminator
  THEN [ret |-> Err("UnknownAccountType", <<"Wrong discriminator">>),
        body |-> <<>>]
  ELSE LET data_slice == Skip(data, 8)
           account == try_deserialize(T, data_slice)
           json == to_string(account.value)
       IN [ret |-> IF ~account.ok
                   THEN Err("DeserializationFailed", account.msg)
                   ELSE IF ~json.ok THEN Err("InvalidData", json.msg)
                   ELSE Ok([account_type |-> type_name, data |-> json.value,
                            discriminator |-> Some(discriminator)]),
           body |-> <<data_slice>>]

parse_borsh_account(data, T, type_name) ==
  LET account == try_from_slice(T, data)
      json == to_string(account.value)
  IN [ret |-> IF ~account.ok
              THEN Err("DeserializationFailed", account.msg)
              ELSE IF ~json.ok THEN Err("InvalidData", json.msg)
              ELSE Ok([account_type |-> type_name, data |-> json.value,
                       discriminator |-> None]),
      body |-> <<data>>]

parse_account_with_discriminator_MergedCheck(data, T, type_name, discriminator, disc_size) ==
  IF Len(data) < disc_size \/ Take(data, disc_size) # discriminator
  THEN [ret |-> Err("UnknownAccountType", <<"Wrong discriminator">>),
        body |-> <<>>]
  ELSE LET rest == Skip(data, disc_size)
           account == try_from_slice(T, rest)
           json == to_string(account.value)
       IN [ret |-> IF ~account.ok
                   THEN Err("DeserializationFailed", account.msg)
                   ELSE IF ~json.ok THEN Err("InvalidData", json.msg)
                   ELSE Ok([account_type |-> type_name, data |-> json.value,
                            discriminator |-> Some(discriminator)]),
           body |-> <<rest>>]

parse_account_with_discriminator_NoStrip(data, T, type_name, discriminator, disc_size) ==
  IF Len(data) < disc_size
  THEN [ret |-> Err("InsufficientData", <<"Data too short for discriminator">>),
        body |-> <<>>]
  ELSE IF Take(data, disc_size) # discriminator
  THEN [ret |-> Err("UnknownAccountType", <<"Wrong discriminator">>),
        body |-> <<>>]
  ELSE LET account == try_from_slice(T, data)
           json == to_string(account.value)
       IN [ret |-> IF ~account.ok
                   THEN Err("DeserializationFailed", account.msg)
                   ELSE IF ~json.ok THEN Err("InvalidData", json.msg)
                   ELSE Ok([account_type |-> type_name, data |-> json.value,
                            discriminator |-> Some(discriminator)]),
           body |-> <<data>>]

parse_account_with_discriminator_NoLengthCheck(data, T, type_name, discriminator, disc_size) ==
  IF Len(data) < disc_size
  THEN [ret |-> Err("panic", <<"range end index out of range for slice">>),
        body |-> <<>>]
  ELSE IF Take(data, disc_size) # discriminator
  THEN [ret |-> Err("UnknownAccountType", <<"Wrong discriminator">>),
        body |-> <<>>]
  ELSE LET rest == Skip(data, disc_size)
           account == try_from_slice(T, rest)
           json == to_string(account.value)
       IN [ret |-> IF ~account.ok
                   THEN Err("DeserializationFailed", account.msg)
                   ELSE IF ~json.ok THEN Err("InvalidData", json.msg)
                   ELSE Ok([account_type |-> type_name, data |-> json.value,
                            discriminator |-> Some(discriminator)]),
           body |-> <<rest>>]

parse_account_with_discriminator_InclusiveCheck(data, T, type_name, discriminator, disc_size) ==
  IF Len(data) <= disc_size
  THEN [ret |-> Err("InsufficientData", <<"Data too short for discriminator">>),
        body |-> <<>>]
  ELSE IF Take(data, disc_size) # discriminator
  THEN [ret |-> Err("UnknownAccountType", <<"Wrong discriminator">>),
        body |-> <<>>]
  ELSE LET rest == Skip(data, disc_size)
           account == try_from_slice(T, rest)
           json == to_string(account.value)
       IN [ret |-> IF ~account.ok
                   THEN Err("DeserializationFailed", account.msg)
                   ELSE IF ~json.ok THEN Err("InvalidData", json.msg)
                   ELSE Ok([account_type |-> type_name, data |-> json.value,
                            discriminator |-> Some(discriminator)]),
           body |-> <<rest>>]

parse_account_with_discriminator(data, T, type_name, discriminator, disc_size) ==
  IF Len(data) < disc_size
  THEN [ret |-> Err("InsufficientData", <<"Data too short for discriminator">>),
        body |-> <<>>]
  ELSE IF Take(data, disc_size) # discriminator
  THEN [ret |-> Err("UnknownAccountType", <<"Wrong discriminator">>),
        body |-> <<>>]
  ELSE LET rest == Skip(data, disc_size)
           account == try_from_slice(T, rest)
           json == to_string(account.value)
       IN [ret |-> IF ~account.ok
                   THEN Err("DeserializationFailed", account.msg)
                   ELSE IF ~json.ok THEN Err("InvalidData", json.msg)
                   ELSE Ok([account_type |-> type_name, data |-> json.value,
                            discriminator |-> Some(discriminator)]),
           body |-> <<rest>>]

parse_anchor_instruction_Compare7(data, T, name, discriminator) ==
  IF Len(data) < 8
  THEN [ret |-> Err("InsufficientData", <<"Instruction data too short">>),
        body |-> <<>>]
  ELSE IF Take(data, 7) # Take(discriminator, 7)
  THEN [ret |-> Err("UnknownAccountType", <<"Wrong discriminator">>),
        body |-> <<>>]
  ELSE LET rest == Skip(data, 8)
           instruction == try_from_slice(T, rest)
           json == to_string(instruction.value)
       IN [ret |-> IF ~instruction.ok
                   THEN Err("DeserializationFailed", instruction.msg)
                   ELSE IF ~json.ok THEN Err("InvalidData", json.msg)
                   ELSE Ok([instruction_name |-> name, data |-> json.value]),
           body |-> <<rest>>]

parse_anchor_instruction(data, T, name, discriminator) ==
  IF Len(data) < 8
  THEN [ret |-> Err("InsufficientData", <<"Instruction data too short">>),
        body |-> <<>>]
  ELSE IF Take(data, 8) # discriminator
  THEN [ret |-> Err("UnknownAccountType", <<"Wrong discriminator">>),
        body |-> <<>>]
  ELSE LET rest == Skip(data, 8)
           instruction == try_from_slice(T, rest)
           json == to_string(instruction.value)
       IN [ret |-> IF ~instruction.ok
                   THEN Err("DeserializationFailed", instruction.msg)
                   ELSE IF ~json.ok THEN Err("InvalidData", json.msg)
                   ELSE Ok([instruction_name |-> name, data |-> json.value]),
           body |-> <<rest>>]

parse_borsh_instruction(data, T, name) ==
  LET instruction == try_from_slice(T, data)
      json == to_string(instruction.value)
  IN [ret |-> IF ~instruction.ok
              THEN Err("DeserializationFailed", instruction.msg)
              ELSE IF ~json.ok THEN Err("InvalidData", json.msg)
              ELSE Ok([instruction_name |-> name, data |-> json.value]),
      body |-> <<data>>]

(***************************************************************************)
(* Calling a boxed closure: (config.parser)(&data).                        *)
(***************************************************************************)
CallAccountParser(parser, data) ==
  CASE parser.fn = "anchor_account" ->
         AnchorAccountClosure(data, parser.T, parser.type_name,
                              parser.discriminator)
    [] parser.fn = "parse_borsh_account" ->
         parse_borsh_account(data, parser.T, parser.type_name)
    [] parser.fn = "parse_account_with_discriminator" ->
         parse_account_with_discriminator(data, parser.T, parser.type_name,
                                          parser.discriminator,
                                          parser.disc_size)
    [] parser.fn = "custom" ->
         [ret |-> CustomAccountFn(parser.F, data), body |-> <<data>>]

CallInstructionParser(parser, data) ==
  CASE parser.fn = "parse_anchor_instruction" ->
         parse_anchor_instruction(data, parser.T, parser.name,
                                  parser.discriminator)
    [] parser.fn = "parse_borsh_instruction" ->
         parse_borsh_instruction(data, parser.T, parser.name)
    [] parser.fn = "custom" ->
         [ret |-> CustomInstructionFn(parser.F, data), body |-> <<data>>]

(***************************************************************************)
(* Parser::parse_account and Parser::parse_instruction.  The loops carry   *)
(* st = [last_error, invoked, decoded]; invoked lists the positions of the *)
(* configs whose parser was called, decoded the deserializer calls.        *)
(***************************************************************************)
Tag(i, body) == [k \in 1..Len(body) |-> [index |-> i, bytes |-> body[k]]]

RecordError_KeepFirst(last_error, e) ==
  IF last_error = None THEN Some(e) ELSE last_error

RecordError(last_error, e) == Some(e)

unwrap_or_else_Default(opt, default) == default

unwrap_or_else(opt, default) == IF opt = None THEN default ELSE opt[1]

RECURSIVE AccountLoop_NoEarlyReturn(_, _, _, _)
AccountLoop_NoEarlyReturn(parsers, data, i, st) ==
  IF i > Len(parsers)
  THEN [ret |-> unwrap_or_else(st.last_error,
                  Err("UnknownAccountType",
                      <<"No parser could handle this account">>)),
        invoked |-> st.invoked, decoded |-> st.decoded]
  ELSE LET r == CallAccountParser(parsers[i].parser, data)
           inv == Append(st.invoked, i)
           dec == st.decoded \o Tag(i, r.body)
       IN AccountLoop_NoEarlyReturn(parsers, data, i + 1,
                           [last_error |-> Some(r.ret),
                            invoked |-> inv, decoded |-> dec])

RECURSIVE AccountLoop(_, _, _, _)
AccountLoop(parsers, data, i, st) ==
  IF i > Len(parsers)
  THEN [ret |-> unwrap_or_else(st.last_error,
                  Err("UnknownAccountType",
                      <<"No parser could handle this account">>)),
        invoked |-> st.invoked, decoded |-> st.decoded]
  ELSE LET r == CallAccountParser(parsers[i].parser, data)
           inv == Append(st.invoked, i)
           dec == st.decoded \o Tag(i, r.body)
       IN IF r.ret.ok
          THEN [ret |-> r.ret, invoked |-> inv, decoded |-> dec]
          ELSE AccountLoop(parsers, data, i + 1,
                           [last_error |-> RecordError(st.last_error, r.ret),
                            invoked |-> inv, decoded |-> dec])

parse_account_OwnerCheckLast(self, account) ==
  LET r == AccountLoop(self.account_parsers, account.data, 1,
                       [last_error |-> None, invoked |-> <<>>,
                        decoded |-> <<>>])
  IN IF account.owner # self.program_id
     THEN [r EXCEPT !.ret = Err("UnknownAccountType",
                                <<"Wrong owner: expected ", self.program_id,
                                  ", got ", account.owner>>)]
     ELSE r

parse_account(self, account) ==
  IF account.owner # self.program_id
  THEN [ret |-> Err("UnknownAccountType",
                    <<"Wrong owner: expected ", self.program_id, ", got ",
                      account.owner>>),
        invoked |-> <<>>, decoded |-> <<>>]
  ELSE AccountLoop(self.account_parsers, account.data, 1,
                   [last_error |-> None, invoked |-> <<>>, decoded |-> <<>>])

RECURSIVE InstructionLoop_Retry(_, _, _, _)
InstructionLoop_Retry(parsers, data, i, st) ==
  IF i > Len(parsers)
  THEN [ret |-> unwrap_or_else(st.last_error,
                  Err("UnknownAccountType",
                      <<"No instruction parser matched">>)),
        invoked |-> st.invoked, decoded |-> st.decoded]
  ELSE LET r == CallInstructionParser(parsers[i].parser, data)
           inv == Append(st.invoked, i)
           dec == st.decoded \o Tag(i, r.body)
       IN IF r.ret.ok
          THEN [ret |-> r.ret, invoked |-> inv, decoded |-> dec]
          ELSE InstructionLoop_Retry(parsers, data, i + 1,
                 [last_error |-> RecordError(st.last_error, r.ret),
                  invoked |-> Append(inv, i),
                  decoded |-> dec \o Tag(i, r.body)])

RECURSIVE InstructionLoop(_, _, _, _)
InstructionLoop(parsers, data, i, st) ==
  IF i > Len(parsers)
  THEN [ret |-> unwrap_or_else(st.last_error,
                  Err("UnknownAccountType",
                      <<"No instruction parser matched">>)),
        invoked |-> st.invoked, decoded |-> st.decoded]
  ELSE LET r == CallInstructionParser(parsers[i].parser, data)
           inv == Append(st.invoked, i)
           dec == st.decoded \o Tag(i, r.body)
       IN IF r.ret.ok
          THEN [ret |-> r.ret, invoked |-> inv, decoded |-> dec]
          ELSE InstructionLoop(parsers, data, i + 1,
                               [last_error |-> RecordError(st.last_error, r.ret),
                                invoked |-> inv, decoded |-> dec])

parse_instruction_Zip(self, instruction) ==
  LET n == IF Len(self.account_parsers) < Len(self.instruction_parsers)
           THEN Len(self.account_parsers)
           ELSE Len(self.instruction_parsers)
  IN InstructionLoop(SubSeq(self.instruction_parsers, 1, n),
                     instruction.data, 1,
                     [last_error |-> None, invoked |-> <<>>,
                      decoded |-> <<>>])

parse_instruction(self, instruction) ==
  InstructionLoop(self.instruction_parsers, instruction.data, 1,
                  [last_error |-> None, invoked |-> <<>>, decoded |-> <<>>])

can_parse_Deep(self, owner, data) ==
  /\ owner = self.program_id
  /\ \E i \in 1..Len(self.account_parsers) :
       CallAccountParser(self.account_parsers[i].parser, data).ret.ok

can_parse(self, owner, data) == owner = self.program_id

get_supported_types(self) ==
  [k \in 1..Len(self.account_parsers) |-> self.account_parsers[k].type_name]

get_metadata_Reconciled(self) ==
  IF self.metadata = None THEN None
  ELSE Some([self.metadata[1] EXCEPT !.program_id = Some(self.program_id)])

get_metadata(self) == self.metadata

(***************************************************************************)
(* Component::parse_accounts of the tentacles component: the batch maps    *)
(* parse_account over its elements and collects the results in a Vec.      *)
(***************************************************************************)
parse_accounts(self, accounts) ==
  LET each == [k \in 1..Len(accounts) |-> parse_account(self, accounts[k])]
  IN [ret |-> Ok([k \in 1..Len(accounts) |-> each[k].ret]),
      invoked |-> [k \in 1..Len(accounts) |-> each[k].invoked],
      decoded |-> [k \in 1..Len(accounts) |-> each[k].decoded]]

(***************************************************************************)
(* Registration arguments of the model                                     *)
(***************************************************************************)
AnchorAccountArgs == Types

BorshAccountArgs == { <<"Widget", "Gadget">> }

DiscAccountArgs ==
  { <<"Widget", "Gadget", <<7, 7>>>>, <<"Widget", "Widget", <<>>>>,
    <<"Opaque", "Gadget", <<7>>>> }

CustomAccountArgs ==
  { <<"Gadget", Some(<<7, 7>>), "AlwaysOk">>, <<"Widget", None, "AlwaysFail">> }

AnchorInstructionArgs == { <<"Widget", "deposit">>, <<"Opaque", "withdraw">> }

BorshInstructionArgs == { <<"Widget", "transfer">> }

CustomInstructionArgs == { <<"deposit", Some(<<7, 7>>), "AlwaysOk">> }

(***************************************************************************)
(* State machine                                                           *)
(***************************************************************************)
Self ==
  [program_id |-> program_id, account_parsers |-> account_parsers,
   instruction_parsers |-> instruction_parsers, metadata |-> metadata]

Room == Len(account_parsers) + Len(instruction_parsers) < MaxParsers

Threads == {"t1", "t2"}

IdleThread ==
  [last_error |-> None, ret |-> <<>>, index |-> 0, pc |-> "idle",
   call |-> "none", input |-> <<>>]

Init ==
  /\ stage = "builder"
  /\ program_id = "ProgramX"
  /\ account_parsers = <<>>
  /\ instruction_parsers = <<>>
  /\ metadata = None
  /\ op = "none" /\ arg = <<>> /\ ret = <<>>
  /\ invoked = <<>> /\ decoded = <<>>
  /\ threads = [t \in Threads |-> IdleThread]

PushAccount_Front(config) ==
  /\ stage = "builder"
  /\ Room
  /\ account_parsers' = <<config>> \o account_parsers
  /\ UNCHANGED <<stage, program_id, instruction_parsers, metadata,
                 op, arg, ret, invoked, decoded, threads>>

PushAccount(config) ==
  /\ stage = "builder"
  /\ Room
  /\ account_parsers' = Append(account_parsers, config)
  /\ UNCHANGED <<stage, program_id, instruction_parsers, metadata,
                 op, arg, ret, invoked, decoded, threads>>

PushInstruction(config) ==
  /\ stage = "builder"
  /\ Room
  /\ instruction_parsers' = Append(instruction_parsers, config)
  /\ UNCHANGED <<stage, program_id, account_parsers, metadata,
                 op, arg, ret, invoked, decoded, threads>>

register_anchor_account ==
  \E T \in AnchorAccountArgs :
    LET type_name == extract_type_name(T)
        discriminator == compute_anchor_discriminator("account", type_name)
    IN PushAccount([type_name |-> type_name,
                    discriminator |-> Some(discriminator),
                    parser |-> [fn |-> "anchor_account", T |-> T,
                                type_name |-> type_name,
                                discriminator |-> discriminator]])

register_borsh_account ==
  \E a \in BorshAccountArgs :
    PushAccount([type_name |-> a[2], discriminator |-> None,
                 parser |-> [fn |-> "parse_borsh_account", T |-> a[1],
                             type_name |-> a[2]]])

register_account_with_discriminator ==
  \E a \in DiscAccountArgs :
    PushAccount([type_name |-> a[2], discriminator |-> Some(a[3]),
                 parser |-> [fn |-> "parse_account_with_discriminator",
                             T |-> a[1], type_name |-> a[2],
                             discriminator |-> a[3],
                             disc_size |-> Len(a[3])]])

register_custom_account ==
  \E a \in CustomAccountArgs :
    PushAccount([type_name |-> a[1], discriminator |-> a[2],
                 parser |-> [fn |-> "custom", F |-> a[3]]])

register_anchor_instruction ==
  \E a \in AnchorInstructionArgs :
    LET discriminator == compute_anchor_discriminator("global", a[2])
    IN PushInstruction([name |-> a[2], discriminator |-> Some(discriminator),
                        parser |-> [fn |-> "parse_anchor_instruction",
                                    T |-> a[1], name |-> a[2],
                                    discriminator |-> discriminator]])

register_borsh_instruction ==
  \E a \in BorshInstructionArgs :
    PushInstruction([name |-> a[2], discriminator |-> None,
                     parser |-> [fn |-> "parse_borsh_instruction",
                                 T |-> a[1], name |-> a[2]]])

register_custom_instruction ==
  \E a \in CustomInstructionArgs :
    PushInstruction([name |-> a[1], discriminator |-> a[2],
                     parser |-> [fn |-> "custom", F |-> a[3]]])

with_metadata ==
  \E m \in Metadatas :
    /\ stage = "builder"
    /\ metadata' = Some(m)
    /\ UNCHANGED <<stage, program_id, account_parsers, instruction_parsers,
                   op, arg, ret, invoked, decoded, threads>>

build ==
  /\ stage = "builder"
  /\ stage' = "parser"
  /\ program_id' = program_id
  /\ account_parsers' = account_parsers
  /\ instruction_parsers' = instruction_parsers
  /\ metadata' = metadata
  /\ UNCHANGED <<op, arg, ret, invoked, decoded, threads>>

ParseAccount_MoveToFront ==
  \E owner \in Ids, data \in Datas :
    LET account == [owner |-> owner, data |-> data]
        r == parse_account(Self, account)
        hit == r.invoked[Len(r.invoked)]
    IN /\ stage = "parser"
       /\ op' = "parse_account"
       /\ arg' = account
       /\ ret' = r.ret
       /\ invoked' = r.invoked
       /\ decoded' = r.decoded
       /\ account_parsers' =
            IF r.ret.ok
            THEN <<account_parsers[hit]>> \o
                 SubSeq(account_parsers, 1, hit - 1) \o
                 SubSeq(account_parsers, hit + 1, Len(account_parsers))
            ELSE account_parsers
       /\ UNCHANGED <<stage, program_id, instruction_parsers, metadata,
                      threads>>

ParseAccount ==
  \E owner \in Ids, data \in Datas :
    LET account == [owner |-> owner, data |-> data]
        r == parse_account(Self, account)
    IN /\ stage = "parser"
       /\ op' = "parse_account"
       /\ arg' = account
       /\ ret' = r.ret
       /\ invoked' = r.invoked
       /\ decoded' = r.decoded
       /\ UNCHANGED <<stage, program_id, account_parsers,
                      instruction_parsers, metadata, threads>>

ParseAccounts ==
  \E accounts \in Batches :
    LET r == parse_accounts(Self, accounts)
    IN /\ stage = "parser"
       /\ op' = "parse_accounts"
       /\ arg' = accounts
       /\ ret' = r.ret
       /\ invoked' = r.invoked
       /\ decoded' = r.decoded
       /\ UNCHANGED <<stage, program_id, account_parsers,
                      instruction_parsers, metadata, threads>>

ParseInstruction ==
  \E data \in Datas :
    LET instruction == [data |-> data]
        r == parse_instruction(Self, instruction)
    IN /\ stage = "parser"
       /\ op' = "parse_instruction"
       /\ arg' = instruction
       /\ ret' = r.ret
       /\ invoked' = r.invoked
       /\ decoded' = r.decoded
       /\ UNCHANGED <<stage, program_id, account_parsers,
                      instruction_parsers, metadata, threads>>

CanParse ==
  \E owner \in Ids, data \in Previews :
    /\ stage = "parser"
    /\ op' = "can_parse"
    /\ arg' = [owner |-> owner, data |-> data]
    /\ ret' = can_parse(Self, owner, data)
    /\ invoked' = <<>>
    /\ decoded' = <<>>
    /\ UNCHANGED <<stage, program_id, account_parsers, instruction_parsers,
                   metadata, threads>>

GetSupportedTypes ==
  /\ stage = "parser"
  /\ op' = "get_supported_types"
  /\ arg' = <<>>
  /\ ret' = get_supported_types(Self)
  /\ invoked' = <<>>
  /\ decoded' = <<>>
  /\ UNCHANGED <<stage, program_id, account_parsers, instruction_parsers,
                 metadata, threads>>

GetMetadata ==
  /\ stage = "parser"
  /\ op' = "get_metadata"
  /\ arg' = <<>>
  /\ ret' = get_metadata(Self)
  /\ invoked' = <<>>
  /\ decoded' = <<>>
  /\ UNCHANGED <<stage, program_id, account_parsers, instruction_parsers,
                 metadata, threads>>

Next ==
  \/ register_anchor_account
  \/ register_borsh_account
  \/ register_account_with_discriminator
  \/ register_custom_account
  \/ register_anchor_instruction
  \/ register_borsh_instruction
  \/ register_custom_instruction
  \/ with_metadata
  \/ build
  \/ ParseAccount
  \/ ParseInstruction
  \/ CanParse
  \/ GetSupportedTypes
  \/ GetMetadata

Spec == Init /\ [][Next]_vars

(***************************************************************************)
(* The classification calls alone, single and batched, on every registry   *)
(* the builder can produce.                                                *)
(***************************************************************************)
DispatchNext ==
  \/ register_anchor_account
  \/ register_borsh_account
  \/ register_account_with_discriminator
  \/ register_custom_account
  \/ register_anchor_instruction
  \/ register_borsh_instruction
  \/ register_custom_instruction
  \/ build
  \/ ParseAccount
  \/ ParseAccounts
  \/ ParseInstruction

DispatchSpec == Init /\ [][DispatchNext]_vars

(***************************************************************************)
(* Concurrent callers.  The Parser lives in a static (PARSER in the        *)
(* tentacles component) and is read through &self by every caller.  Each   *)
(* thread runs one call at a time; parse_account and parse_instruction     *)
(* advance one loop iteration per step, so that the calls of two threads   *)
(* interleave at every iteration.  last_error, the loop position and the   *)
(* result are locals of the call: thread t keeps them in threads[t].       *)
(***************************************************************************)
ThreadDatas == { <<5>>, WidgetDisc \o <<5>> }

Slot_Shared(t) == "t1"

Slot(t) == t

Returned(t, call, input, r) ==
  [threads EXCEPT ![t] = [last_error |-> None, ret |-> r, index |-> 0,
                          pc |-> "done", call |-> call, input |-> input]]

Entered(t, call, input) ==
  [threads EXCEPT ![t] = [last_error |-> threads[t].last_error,
                          ret |-> <<>>, index |-> 1, pc |-> "loop",
                          call |-> call, input |-> input],
                  ![Slot(t)].last_error = None]

CanCall(t) == stage = "parser" /\ threads[t].pc \in {"idle", "done"}

CallParseAccount(t) ==
  \E owner \in Ids, data \in ThreadDatas :
    LET account == [owner |-> owner, data |-> data]
    IN /\ CanCall(t)
       /\ threads' =
            IF account.owner # program_id
            THEN Returned(t, "parse_account", account,
                          Err("UnknownAccountType",
                              <<"Wrong owner: expected ", program_id,
                                ", got ", account.owner>>))
            ELSE Entered(t, "parse_account", account)
       /\ UNCHANGED <<stage, program_id, account_parsers,
                      instruction_parsers, metadata, op, arg, ret, invoked,
                      decoded>>

CallParseInstruction(t) ==
  \E data \in ThreadDatas :
    /\ CanCall(t)
    /\ threads' = Entered(t, "parse_instruction", [data |-> data])
    /\ UNCHANGED <<stage, program_id, account_parsers, instruction_parsers,
                   metadata, op, arg, ret, invoked, decoded>>

CallIntrospection(t) ==
  /\ CanCall(t)
  /\ \/ \E owner \in Ids :
          threads' = Returned(t, "can_parse", [owner |-> owner, data |-> <<>>],
                              can_parse(Self, owner, <<>>))
     \/ threads' = Returned(t, "get_supported_types", <<>>,
                            get_supported_types(Self))
     \/ threads' = Returned(t, "get_metadata", <<>>, get_metadata(Self))
  /\ UNCHANGED <<stage, program_id, account_parsers, instruction_parsers,
                 metadata, op, arg, ret, invoked, decoded>>

LoopStep(t) ==
  LET me == threads[t]
      parsers == IF me.call = "parse_account" THEN account_parsers
                 ELSE instruction_parsers
      r == IF me.call = "parse_account"
           THEN CallAccountParser(parsers[me.index].parser, me.input.data)
           ELSE CallInstructionParser(parsers[me.index].parser, me.input.data)
  IN /\ me.pc = "loop"
     /\ me.index <= Len(parsers)
     /\ threads' =
          IF r.ret.ok
          THEN Returned(t, me.call, me.input, r.ret)
          ELSE [threads EXCEPT
                  ![t].index = me.index + 1,
                  ![Slot(t)].last_error =
                     RecordError(threads[Slot(t)].last_error, r.ret)]
     /\ UNCHANGED <<stage, program_id, account_parsers, instruction_parsers,
                    metadata, op, arg, ret, invoked, decoded>>

LoopExit(t) ==
  LET me == threads[t]
      parsers == IF me.call = "parse_account" THEN account_parsers
                 ELSE instruction_parsers
      default == IF me.call = "parse_account"
                 THEN Err("UnknownAccountType",
                          <<"No parser could handle this account">>)
                 ELSE Err("UnknownAccountType",
                          <<"No instruction parser matched">>)
  IN /\ me.pc = "loop"
     /\ me.index > Len(parsers)
     /\ threads' = Returned(t, me.call, me.input,
                            unwrap_or_else(threads[Slot(t)].last_error,
                                           default))
     /\ UNCHANGED <<stage, program_id, account_parsers, instruction_parsers,
                    metadata, op, arg, ret, invoked, decoded>>

ThreadNext ==
  \/ register_anchor_account
  \/ register_borsh_account
  \/ register_account_with_discriminator
  \/ register_custom_account
  \/ register_anchor_instruction
  \/ register_borsh_instruction
  \/ register_custom_instruction
  \/ build
  \/ \E t \in Threads :
       \/ CallParseAccount(t)
       \/ CallParseInstruction(t)
       \/ CallIntrospection(t)
       \/ LoopStep(t)
       \/ LoopExit(t)

ThreadSpec == Init /\ [][ThreadNext]_vars

TypeOK ==
  /\ stage \in {"builder", "parser"}
  /\ program_id \in Ids
  /\ Len(account_parsers) + Len(instruction_parsers) <= MaxParsers
  /\ op \in {"none", "parse_account", "parse_accounts", "parse_instruction",
             "can_parse", "get_supported_types", "get_metadata"}

(***************************************************************************)
(* Vocabulary of the properties.  They speak about the last call: op, arg, *)
(* ret, invoked and decoded.                                               *)
(***************************************************************************)
IsDispatch == op \in {"parse_account", "parse_instruction"}

OwnerMatches == op = "parse_account" /\ arg.owner = program_id

Configs ==
  IF op = "parse_account" THEN account_parsers ELSE instruction_parsers

EntryRun(i) ==
  IF op = "parse_account"
  THEN CallAccountParser(account_parsers[i].parser, arg.data)
  ELSE CallInstructionParser(instruction_parsers[i].parser, arg.data)

Accepting == { i \in 1..Len(Configs) : EntryRun(i).ret.ok }

FirstAccepting == CHOOSE i \in Accepting : \A j \in Accepting : i <= j

UpTo(n) == [k \in 1..n |-> k]

WasInvoked(i) == \E k \in 1..Len(invoked) : invoked[k] = i

LastInvoked(i) == invoked # <<>> /\ invoked[Len(invoked)] = i

DecodedBy(i) == { k \in 1..Len(decoded) : decoded[k].index = i }

GuardFns ==
  {"anchor_account", "parse_account_with_discriminator",
   "parse_anchor_instruction"}

Guarded(i) == Configs[i].parser.fn \in GuardFns

Declares(i) == Configs[i].discriminator # None

Sig(i) == Configs[i].discriminator[1]

HasPrefix(data, sig) == Len(data) >= Len(sig) /\ Take(data, Len(sig)) = sig

EmptyParser ==
  [program_id |-> "ProgramX", account_parsers |-> <<>>,
   instruction_parsers |-> <<>>, metadata |-> None]

OwnerMismatchKind ==
  parse_account(EmptyParser, [owner |-> "ProgramY", data |-> <<>>]).ret.kind

ExhaustedKind ==
  parse_account(EmptyParser, [owner |-> "ProgramX", data |-> <<>>]).ret.kind

(***************************************************************************)
(* C1: a record whose owner differs from the parser's program_id fails     *)
(* with the owner-mismatch error carrying the expected and the actual      *)
(* identifier, and no registered account parser is invoked, whatever the   *)
(* bytes are.                                                              *)
(***************************************************************************)
C1_WrongOwnerInvokesNothing ==
  (op = "parse_account" /\ arg.owner # program_id) =>
    /\ ret = Err("UnknownAccountType",
                 <<"Wrong owner: expected ", program_id, ", got ", arg.owner>>)
    /\ invoked = <<>>
    /\ decoded = <<>>

C1_Witness ==
  /\ op = "parse_account"
  /\ arg.owner # program_id
  /\ Accepting # {}

(***************************************************************************)
(* C2: with a matching owner the account parsers are invoked in            *)
(* registration order, the result is the outcome of the lowest-index       *)
(* parser that succeeds, and no parser registered after it is invoked.     *)
(***************************************************************************)
C2_FirstSuccessWins ==
  (OwnerMatches /\ Accepting # {}) =>
    /\ ret = EntryRun(FirstAccepting).ret
    /\ invoked = UpTo(FirstAccepting)
    /\ \A j \in 1..Len(account_parsers) :
         j > FirstAccepting => ~WasInvoked(j) /\ DecodedBy(j) = {}

C2_Witness ==
  /\ OwnerMatches
  /\ ret.ok
  /\ Len(account_parsers) >= 2
  /\ invoked = <<1>>
  /\ ~EntryRun(2).ret.ok

(***************************************************************************)
(* C3 (as stated): when every account parser rejects a record with a       *)
(* matching owner, the error returned has the kind of the bare exhaustion  *)
(* error, not the kind of an individual parser's failure.                  *)
(***************************************************************************)
C3_ExhaustionKindIsNoMatch ==
  (IsDispatch /\ (op = "parse_account" => OwnerMatches) /\ Accepting = {}) =>
    /\ ~ret.ok
    /\ ret.kind = ExhaustedKind

(***************************************************************************)
(* C3 (amended): on exhaustion the call returns the failure of the last    *)
(* registered parser itself, with that failure's own kind and text; only   *)
(* when the list is empty does it return the bare UnknownAccountType       *)
(* error ("No parser could handle this account" for accounts, "No          *)
(* instruction parser matched" for instructions).                          *)
(***************************************************************************)
C3_ExhaustionReturnsLastFailure ==
  (IsDispatch /\ (op = "parse_account" => OwnerMatches) /\ Accepting = {}) =>
    IF Configs = <<>>
    THEN ret = Err("UnknownAccountType",
                   IF op = "parse_account"
                   THEN <<"No parser could handle this account">>
                   ELSE <<"No instruction parser matched">>)
    ELSE /\ ~ret.ok
         /\ ret.kind = EntryRun(Len(Configs)).ret.kind
         /\ ret.msg = EntryRun(Len(Configs)).ret.msg

C3_Witness ==
  /\ OwnerMatches
  /\ Accepting = {}
  /\ account_parsers # <<>>
  /\ ~ret.ok
  /\ ret.kind = "InsufficientData"

(***************************************************************************)
(* C4: last error wins.  When all k >= 1 parsers of a list reject the      *)
(* input, every one of them was invoked, in order, and the failure         *)
(* returned is exactly the failure of the k-th.                            *)
(***************************************************************************)
C4_LastErrorWins ==
  (/\ IsDispatch
   /\ op = "parse_account" => OwnerMatches
   /\ Configs # <<>>
   /\ Accepting = {}) =>
    /\ invoked = UpTo(Len(Configs))
    /\ ret = EntryRun(Len(Configs)).ret

C4_Witness ==
  /\ OwnerMatches
  /\ Accepting = {}
  /\ Len(account_parsers) >= 2
  /\ invoked = UpTo(Len(account_parsers))
  /\ EntryRun(1).ret.kind # ret.kind
  /\ EntryRun(1).ret.msg # ret.msg

Inner(i) ==
  LET parser == Configs[i].parser
      rest == Skip(arg.data, Len(Sig(i)))
  IN IF parser.fn = "anchor_account"
     THEN try_deserialize(parser.T, rest)
     ELSE try_from_slice(parser.T, rest)

Rendering(i) == to_string(Inner(i).value)

EntryName(i) ==
  IF op = "parse_account" THEN Configs[i].type_name ELSE Configs[i].name

OutcomeName(v) ==
  IF "account_type" \in DOMAIN v THEN v.account_type ELSE v.instruction_name

HasEcho(v, sig) == "discriminator" \in DOMAIN v /\ v.discriminator = Some(sig)

(***************************************************************************)
(* C5 (as stated): for every entry that declares a signature, however it   *)
(* was registered, the entry's decode logic runs only on inputs whose      *)
(* leading bytes are exactly the declared signature.                       *)
(***************************************************************************)
C5_DeclaredSignatureAlwaysVerified ==
  IsDispatch =>
    \A k \in 1..Len(decoded) :
      Declares(decoded[k].index) =>
        HasPrefix(arg.data, Sig(decoded[k].index))

(***************************************************************************)
(* C5 (amended): the signature is verified before the decode logic runs    *)
(* for the entries registered with register_anchor_account,                *)
(* register_account_with_discriminator and register_anchor_instruction.    *)
(* An entry of register_custom_account or register_custom_instruction has  *)
(* its closure run on every input it is tried on, whatever signature it    *)
(* declares.                                                               *)
(***************************************************************************)
C5_GuardedSignatureVerified ==
  IsDispatch =>
    /\ \A k \in 1..Len(decoded) :
         Guarded(decoded[k].index) =>
           HasPrefix(arg.data, Sig(decoded[k].index))
    /\ \A i \in 1..Len(Configs) :
         (WasInvoked(i) /\ Configs[i].parser.fn = "custom") =>
           DecodedBy(i) # {}

C5_Witness ==
  /\ IsDispatch
  /\ \E k \in 1..Len(decoded) :
       /\ Guarded(decoded[k].index)
       /\ Len(Sig(decoded[k].index)) = 8
       /\ HasPrefix(arg.data, Sig(decoded[k].index))
  /\ \E i \in 1..Len(Configs) :
       WasInvoked(i) /\ Guarded(i) /\ ~HasPrefix(arg.data, Sig(i))

(***************************************************************************)
(* C6: an input shorter than the signature of a guarded entry makes that   *)
(* entry fail with InsufficientData, and the deserializer of its type is   *)
(* not called.                                                             *)
(***************************************************************************)
C6_ShortInputInsufficientData ==
  IsDispatch =>
    \A i \in 1..Len(Configs) :
      (WasInvoked(i) /\ Guarded(i) /\ Len(arg.data) < Len(Sig(i))) =>
        /\ ~EntryRun(i).ret.ok
        /\ EntryRun(i).ret.kind = "InsufficientData"
        /\ DecodedBy(i) = {}
        /\ LastInvoked(i) => ret = EntryRun(i).ret

C6_Witness ==
  /\ IsDispatch
  /\ \E i \in 1..Len(Configs) :
       /\ LastInvoked(i)
       /\ Configs[i].parser.fn = "parse_account_with_discriminator"
       /\ Len(arg.data) < Len(Sig(i))
       /\ ret.kind = "InsufficientData"

(***************************************************************************)
(* C7 (as stated): an input at least as long as the signature of a guarded *)
(* entry but with other leading bytes fails with an error whose kind is    *)
(* distinct from the kind of the owner mismatch and from the kind of the   *)
(* bare exhaustion error, and the deserializer is not called.              *)
(***************************************************************************)
C7_MismatchKindDistinct ==
  IsDispatch =>
    \A i \in 1..Len(Configs) :
      (/\ WasInvoked(i) /\ Guarded(i)
       /\ Len(arg.data) >= Len(Sig(i))
       /\ ~HasPrefix(arg.data, Sig(i))) =>
        /\ ~EntryRun(i).ret.ok
        /\ DecodedBy(i) = {}
        /\ EntryRun(i).ret.kind \notin {OwnerMismatchKind, ExhaustedKind}

(***************************************************************************)
(* C7 (amended): such an input fails with UnknownAccountType("Wrong        *)
(* discriminator"), the same kind that the owner mismatch and the bare     *)
(* exhaustion error use, told apart by its text only; the deserializer is  *)
(* not called.                                                             *)
(***************************************************************************)
C7_MismatchIsWrongDiscriminator ==
  IsDispatch =>
    \A i \in 1..Len(Configs) :
      (/\ WasInvoked(i) /\ Guarded(i)
       /\ Len(arg.data) >= Len(Sig(i))
       /\ ~HasPrefix(arg.data, Sig(i))) =>
        /\ EntryRun(i).ret = Err("UnknownAccountType", <<"Wrong discriminator">>)
        /\ EntryRun(i).ret.kind = OwnerMismatchKind
        /\ EntryRun(i).ret.kind = ExhaustedKind
        /\ DecodedBy(i) = {}
        /\ LastInvoked(i) => ret = EntryRun(i).ret

C7_Witness ==
  /\ IsDispatch
  /\ \E i \in 1..Len(Configs) :
       /\ LastInvoked(i) /\ Guarded(i)
       /\ Len(arg.data) >= Len(Sig(i))
       /\ Take(arg.data, 7) = Take(Sig(i), 7)
       /\ ~HasPrefix(arg.data, Sig(i))
       /\ ret = Err("UnknownAccountType", <<"Wrong discriminator">>)

(***************************************************************************)
(* C8 (as stated): when the leading bytes equal the signature S of a       *)
(* guarded entry, the deserializer is called once, on the input without    *)
(* its first Len(S) bytes, and a success is the outcome with the entry's   *)
(* registered name, the rendering of the value and the echo Some(S).       *)
(***************************************************************************)
C8_SuccessEchoesSignature ==
  IsDispatch =>
    \A i \in 1..Len(Configs) :
      (WasInvoked(i) /\ Guarded(i) /\ HasPrefix(arg.data, Sig(i))) =>
        /\ Cardinality(DecodedBy(i)) = 1
        /\ \A k \in DecodedBy(i) :
             decoded[k].bytes = Skip(arg.data, Len(Sig(i)))
        /\ EntryRun(i).ret.ok =>
             /\ ret = EntryRun(i).ret
             /\ OutcomeName(ret.value) = EntryName(i)
             /\ ret.value.data = Rendering(i).value
             /\ HasEcho(ret.value, Sig(i))

(***************************************************************************)
(* C8 (amended): as above, but the echo Some(S) is part of the outcome of  *)
(* an account entry only; the outcome of an instruction entry is           *)
(* {instruction_name, data} and carries no signature.                      *)
(***************************************************************************)
C8_SuccessOutcome ==
  IsDispatch =>
    \A i \in 1..Len(Configs) :
      (WasInvoked(i) /\ Guarded(i) /\ HasPrefix(arg.data, Sig(i))) =>
        /\ Cardinality(DecodedBy(i)) = 1
        /\ \A k \in DecodedBy(i) :
             decoded[k].bytes = Skip(arg.data, Len(Sig(i)))
        /\ EntryRun(i).ret.ok =>
             /\ Inner(i).ok /\ Rendering(i).ok
             /\ ret = IF op = "parse_account"
                      THEN Ok([account_type |-> Configs[i].type_name,
                               data |-> Rendering(i).value,
                               discriminator |-> Some(Sig(i))])
                      ELSE Ok([instruction_name |-> Configs[i].name,
                               data |-> Rendering(i).value])

C8_Witness ==
  /\ op = "parse_account"
  /\ ret.ok
  /\ \E i \in 1..Len(Configs) :
       /\ LastInvoked(i)
       /\ Configs[i].parser.fn = "parse_account_with_discriminator"
       /\ Len(Sig(i)) > 0
       /\ Configs[i].type_name # Configs[i].parser.T
       /\ ret.value.discriminator = Some(Sig(i))

(***************************************************************************)
(* C9 (as stated): once the prefix has matched, every failure of a guarded *)
(* entry, be it of the deserializer or of the rendering, has the kind      *)
(* DeserializationFailed and carries the inner text.                       *)
(***************************************************************************)
C9_BodyFailureIsDeserializationFailed ==
  IsDispatch =>
    \A i \in 1..Len(Configs) :
      (/\ WasInvoked(i) /\ Guarded(i) /\ HasPrefix(arg.data, Sig(i))
       /\ ~EntryRun(i).ret.ok) =>
        /\ EntryRun(i).ret.kind = "DeserializationFailed"
        /\ EntryRun(i).ret.msg =
             IF ~Inner(i).ok THEN Inner(i).msg ELSE Rendering(i).msg

(***************************************************************************)
(* C9 (amended): once the prefix has matched, a failure of the             *)
(* deserializer is returned as DeserializationFailed and a failure of the  *)
(* rendering as InvalidData, each with the inner text unmodified; the      *)
(* entry produces no other error kind.                                     *)
(***************************************************************************)
C9_BodyFailureKinds ==
  IsDispatch =>
    \A i \in 1..Len(Configs) :
      (WasInvoked(i) /\ Guarded(i) /\ HasPrefix(arg.data, Sig(i))) =>
        /\ IF ~Inner(i).ok
           THEN EntryRun(i).ret = Err("DeserializationFailed", Inner(i).msg)
           ELSE IF ~Rendering(i).ok
           THEN EntryRun(i).ret = Err("InvalidData", Rendering(i).msg)
           ELSE EntryRun(i).ret.ok
        /\ (LastInvoked(i) /\ ~EntryRun(i).ret.ok) => ret = EntryRun(i).ret

C9_Witness ==
  /\ IsDispatch
  /\ \E i \in 1..Len(Configs) :
       /\ LastInvoked(i) /\ Guarded(i) /\ HasPrefix(arg.data, Sig(i))
       /\ Inner(i).ok
       /\ ret = Err("InvalidData", <<"key must be a string">>)

(***************************************************************************)
(* C10: parse_instruction is the same first-success-wins, last-error-wins  *)
(* trial over the instruction parsers only, with no owner check: its       *)
(* result does not change with program_id or with the account parsers,     *)
(* and the instruction parsers do not change a parse_account result.       *)
(***************************************************************************)
C10_InstructionPathIndependent ==
  /\ op = "parse_instruction" =>
       /\ IF Accepting # {}
          THEN /\ ret = EntryRun(FirstAccepting).ret
               /\ invoked = UpTo(FirstAccepting)
          ELSE IF instruction_parsers = <<>>
          THEN /\ ret = Err("UnknownAccountType",
                            <<"No instruction parser matched">>)
               /\ invoked = <<>>
          ELSE /\ ret = EntryRun(Len(instruction_parsers)).ret
               /\ invoked = UpTo(Len(instruction_parsers))
       /\ \A p \in Ids :
            parse_instruction([Self EXCEPT !.program_id = p,
                                           !.account_parsers = <<>>],
                              arg).ret = ret
  /\ op = "parse_account" =>
       parse_account([Self EXCEPT !.instruction_parsers = <<>>], arg).ret = ret

C10_Witness ==
  /\ op = "parse_instruction"
  /\ account_parsers # <<>>
  /\ instruction_parsers # <<>>
  /\ ret.ok
  /\ \A i \in 1..Len(account_parsers) :
       ~CallAccountParser(account_parsers[i].parser, arg.data).ret.ok

(***************************************************************************)
(* C11: the account parser list is the sequence of account registrations   *)
(* in call order.  Every step of the builder either leaves the list alone  *)
(* or appends one config at its end (an entry whose type name is already   *)
(* listed is appended like any other); an instruction registration leaves  *)
(* it alone; build and every call on the built parser keep both lists as   *)
(* they are.  get_supported_types returns the type names of the account    *)
(* configs, one per config and in list order, and no name of an            *)
(* instruction config.                                                     *)
(***************************************************************************)
IsPrefixOf(s, t) == Len(s) <= Len(t) /\ SubSeq(t, 1, Len(s)) = s

C11_RegistrationOrderKept ==
  [][/\ \/ account_parsers' = account_parsers
        \/ /\ stage = "builder" /\ stage' = "builder"
           /\ Len(account_parsers') = Len(account_parsers) + 1
           /\ IsPrefixOf(account_parsers, account_parsers')
           /\ instruction_parsers' = instruction_parsers
     /\ stage' = "parser" =>
          /\ account_parsers' = account_parsers
          /\ instruction_parsers' = instruction_parsers
     /\ op' = "get_supported_types" =>
          /\ Len(ret') = Len(account_parsers')
          /\ \A k \in 1..Len(account_parsers') :
               /\ ret'[k] = account_parsers'[k].type_name
               /\ \A j \in 1..Len(instruction_parsers') :
                    ret'[k] # instruction_parsers'[j].name]_vars

C11_Witness ==
  /\ op = "get_supported_types"
  /\ Len(account_parsers) = 2
  /\ account_parsers[1] # account_parsers[2]
  /\ account_parsers[1].type_name = account_parsers[2].type_name
  /\ ret = <<account_parsers[1].type_name, account_parsers[2].type_name>>

(***************************************************************************)
(* C12: once build has produced the Parser, every step (parse_account,     *)
(* parse_instruction, can_parse, get_supported_types, get_metadata,        *)
(* whether it returns Ok or Err) leaves program_id, both parser lists and  *)
(* the metadata as they are, and the Parser never becomes a builder again. *)
(***************************************************************************)
C12_BuiltParserUnchanged ==
  [][stage = "parser" =>
       /\ stage' = "parser"
       /\ program_id' = program_id
       /\ account_parsers' = account_parsers
       /\ instruction_parsers' = instruction_parsers
       /\ metadata' = metadata]_vars

C12_Witness ==
  /\ stage = "parser"
  /\ op = "parse_account" /\ ~ret.ok /\ invoked # <<>>
  /\ instruction_parsers # <<>>
  /\ metadata # None

(***************************************************************************)
(* C13: whatever the interleaving of the calls of the threads on the one   *)
(* built Parser, a call that has returned has returned what the same call  *)
(* returns when it runs alone on that Parser, and no step of any thread    *)
(* changes program_id, a parser list or the metadata.                      *)
(***************************************************************************)
Alone(call, input) ==
  CASE call = "parse_account" -> parse_account(Self, input).ret
    [] call = "parse_instruction" -> parse_instruction(Self, input).ret
    [] call = "can_parse" -> can_parse(Self, input.owner, input.data)
    [] call = "get_supported_types" -> get_supported_types(Self)
    [] call = "get_metadata" -> get_metadata(Self)

C13_ConcurrentReadsAsAlone ==
  [][stage = "parser" =>
       /\ Self' = Self
       /\ \A t \in Threads :
            threads'[t].pc = "done" =>
              threads'[t].ret = Alone(threads'[t].call, threads'[t].input)]_vars

C13_Witness ==
  /\ \A t \in Threads :
       /\ threads[t].pc = "loop" /\ threads[t].index = 2
       /\ threads[t].call = "parse_account"
       /\ threads[t].last_error # None
  /\ threads["t1"].last_error # threads["t2"].last_error

(***************************************************************************)
(* C14: whatever calls came before it and whatever the bytes (the empty    *)
(* buffer and buffers shorter than a declared discriminator included),     *)
(* every parse_account and parse_instruction call returns Ok or one of the *)
(* ParseError variants, and its result is the one the registry and the     *)
(* argument alone determine: the owner-mismatch error, else the result of  *)
(* the first parser that accepts, else the last failure, else the          *)
(* empty-list error.  parse_accounts returns one result per element, in    *)
(* input order, each the result of that element classified alone,          *)
(* whatever the other elements returned.                                   *)
(***************************************************************************)
ParseErrorKinds ==
  {"DeserializationFailed", "InvalidData", "InsufficientData",
   "UnknownAccountType"}

Typed(r) == r.ok \/ r.kind \in ParseErrorKinds

FirstOk(runs) == CHOOSE i \in DOMAIN runs :
                   runs[i].ok /\ \A j \in 1..(i - 1) : ~runs[j].ok

Settled(runs, empty_msg) ==
  IF \E i \in DOMAIN runs : runs[i].ok THEN runs[FirstOk(runs)]
  ELSE IF runs = <<>> THEN Err("UnknownAccountType", <<empty_msg>>)
  ELSE runs[Len(runs)]

AloneAccount(account) ==
  IF account.owner # program_id
  THEN Err("UnknownAccountType",
           <<"Wrong owner: expected ", program_id, ", got ", account.owner>>)
  ELSE Settled([i \in 1..Len(account_parsers) |->
                  CallAccountParser(account_parsers[i].parser,
                                    account.data).ret],
               "No parser could handle this account")

AloneInstruction(instruction) ==
  Settled([i \in 1..Len(instruction_parsers) |->
             CallInstructionParser(instruction_parsers[i].parser,
                                   instruction.data).ret],
          "No instruction parser matched")

C14_TypedAndIndependentResults ==
  /\ op = "parse_account" => Typed(ret) /\ ret = AloneAccount(arg)
  /\ op = "parse_instruction" => Typed(ret) /\ ret = AloneInstruction(arg)
  /\ op = "parse_accounts" =>
       /\ ret.ok
       /\ Len(ret.value) = Len(arg)
       /\ \A k \in 1..Len(arg) :
            Typed(ret.value[k]) /\ ret.value[k] = AloneAccount(arg[k])

C14_Witness ==
  /\ op = "parse_accounts"
  /\ Len(arg) = 2
  /\ arg[1].data = <<>>
  /\ ~ret.value[1].ok /\ ret.value[1].kind = "InsufficientData"
  /\ ret.value[2].ok

(***************************************************************************)
(* C15: on one built Parser, two parse_account calls with the same account *)
(* (owner and bytes), or two parse_instruction calls with the same         *)
(* instruction, have the same result: the same outcome, or the same error  *)
(* kind and text.  One caller keeps its result while the other goes        *)
(* through any number of calls before making the same one.                 *)
(***************************************************************************)
IsRepeat(t, u) ==
  /\ threads[t].pc = "done" /\ threads[u].pc = "done"
  /\ threads[t].call \in {"parse_account", "parse_instruction"}
  /\ threads[t].call = threads[u].call
  /\ threads[t].input = threads[u].input

C15_RepeatedCallSameResult ==
  \A t, u \in Threads : IsRepeat(t, u) => threads[t].ret = threads[u].ret

C15_Witness ==
  /\ IsRepeat("t1", "t2")
  /\ threads["t1"].call = "parse_account"
  /\ threads["t1"].input.owner = program_id
  /\ Len(account_parsers) = 2
  /\ ~threads["t1"].ret.ok
  /\ threads["t2"].ret.kind = "DeserializationFailed"

(***************************************************************************)
(* C16: the metadata is passed through.  Only with_metadata changes the    *)
(* metadata of the builder, to Some of exactly the value it was given; no  *)
(* registration before or after it, and not build, changes it.             *)
(* get_metadata returns the metadata as it stands: None when with_metadata *)
(* was never called, else the given value with its unset fields unset and  *)
(* its program_id as given, equal to the program_id of the Parser or not.  *)
(***************************************************************************)
C16_MetadataPassThrough ==
  [][/\ metadata' # metadata =>
          /\ stage = "builder" /\ stage' = "builder"
          /\ \E m \in Metadatas : metadata' = Some(m)
          /\ account_parsers' = account_parsers
          /\ instruction_parsers' = instruction_parsers
     /\ op' = "get_metadata" =>
          /\ ret' = metadata'
          /\ ret' = None \/ \E m \in Metadatas : ret' = Some(m)]_vars

C16_Witness ==
  /\ op = "get_metadata"
  /\ account_parsers # <<>> /\ instruction_parsers # <<>>
  /\ ret # None
  /\ ret[1].name = None /\ ret[1].project_url = None
  /\ ret[1].program_id # None /\ ret[1].program_id[1] # program_id

(***************************************************************************)
(* C17: can_parse returns true exactly when the owner it is given equals   *)
(* the program_id of the Parser.  The result is the same for every data    *)
(* preview and for every set of registered parsers, no parser is invoked,  *)
(* and it can be true for an account that parse_account rejects.           *)
(***************************************************************************)
C17_CanParseIsOwnerEquality ==
  op = "can_parse" =>
    /\ ret = (arg.owner = program_id)
    /\ invoked = <<>> /\ decoded = <<>>
    /\ \A d \in Previews \cup Datas : can_parse(Self, arg.owner, d) = ret
    /\ can_parse([Self EXCEPT !.account_parsers = <<>>,
                              !.instruction_parsers = <<>>],
                 arg.owner, arg.data) = ret

C17_Witness ==
  /\ op = "can_parse"
  /\ ret = TRUE
  /\ account_parsers # <<>>
  /\ arg.data # <<>>
  /\ ~parse_account(Self, arg).ret.ok

(***************************************************************************)
(* C18: one parse_account or parse_instruction call invokes each           *)
(* registered parser at most once and never retries.  It invokes none when *)
(* the owner differs from program_id; otherwise as many parsers as the     *)
(* position of the first one that accepts (counted from one), and all k of *)
(* them when none accepts.  The call ends with a result after at most k    *)
(* invocations.                                                            *)
(***************************************************************************)
Invocations ==
  IF op = "parse_account" /\ arg.owner # program_id THEN 0
  ELSE IF Accepting # {} THEN FirstAccepting
  ELSE Len(Configs)

C18_BoundedInvocations ==
  IsDispatch =>
    /\ \A j, k \in 1..Len(invoked) : j # k => invoked[j] # invoked[k]
    /\ Len(invoked) = Invocations
    /\ Len(invoked) <= Len(Configs)
    /\ ret.ok \in BOOLEAN

C18_Witness ==
  /\ op = "parse_account"
  /\ Len(account_parsers) = 2
  /\ Accepting = {2}
  /\ invoked = <<1, 2>>
  /\ ret.ok

(***************************************************************************)
(* C19: an entry of register_account_with_discriminator whose              *)
(* discriminator has length zero never fails with InsufficientData or with *)
(* the wrong-discriminator error, whatever the bytes (the empty buffer     *)
(* included); its deserializer receives the whole buffer; a success        *)
(* carries discriminator Some(<<>>), not None.  It accepts exactly the     *)
(* buffers parse_borsh_account accepts for the same type, with the same    *)
(* account_type and data on success and the same error on failure; and     *)
(* when the dispatch reaches it and it accepts, its result is returned and *)
(* no later entry is invoked.                                              *)
(***************************************************************************)
ZeroPrefixed(i) ==
  /\ account_parsers[i].parser.fn = "parse_account_with_discriminator"
  /\ account_parsers[i].parser.discriminator = <<>>

RawRun(i) ==
  parse_borsh_account(arg.data, account_parsers[i].parser.T,
                      account_parsers[i].parser.type_name)

C19_ZeroLengthDiscriminator ==
  op = "parse_account" =>
    \A i \in 1..Len(account_parsers) :
      ZeroPrefixed(i) =>
        /\ EntryRun(i).body = <<arg.data>>
        /\ EntryRun(i).ret.ok = RawRun(i).ret.ok
        /\ IF EntryRun(i).ret.ok
           THEN /\ EntryRun(i).ret.value.discriminator = Some(<<>>)
                /\ EntryRun(i).ret.value.discriminator # None
                /\ EntryRun(i).ret.value.account_type =
                     RawRun(i).ret.value.account_type
                /\ EntryRun(i).ret.value.data = RawRun(i).ret.value.data
                /\ WasInvoked(i) =>
                     /\ ret = EntryRun(i).ret
                     /\ LastInvoked(i)
                     /\ \A j \in (i + 1)..Len(account_parsers) :
                          ~WasInvoked(j)
           ELSE /\ EntryRun(i).ret.kind # "InsufficientData"
                /\ EntryRun(i).ret #
                     Err("UnknownAccountType", <<"Wrong discriminator">>)
                /\ EntryRun(i).ret = RawRun(i).ret

C19_Witness ==
  /\ op = "parse_account"
  /\ Len(account_parsers) = 2
  /\ ZeroPrefixed(1)
  /\ account_parsers[2].parser.fn = "parse_borsh_account"
  /\ Accepting = {1, 2}
  /\ invoked = <<1>>
  /\ ret.ok /\ ret.value.discriminator = Some(<<>>)
====
